---- MODULE Spec2Model ----
(***************************************************************************)
(* Model of the EdTrack calendar processor (src/calendar_processor.py):    *)
(* EdTrackCalendarProcessor.process_calendar_data,                         *)
(* process_lessons_for_scheduling, validate_schedule, analyze_calendar and *)
(* create_learning_targets_from_lessons.                                   *)
(*                                                                         *)
(* Encoding.  A date is a day number counted from 1970-01-01 (a Thursday). *)
(* A duration is counted in half hours, so that 1.5 hours is 3.  A         *)
(* DataFrame is a sequence of rows (records); the empty DataFrame is <<>>. *)
(* A raised ValueError is recorded in the variable error.                  *)
(***************************************************************************)
EXTENDS Integers, Sequences, FiniteSets, TLC

VARIABLES
    pc,                 \* which call of the run comes next
    calendar_df,        \* raw calendar: [columns, rows]
    lessons_df,         \* raw lessons: sequence of lesson rows
    hours_per_day,      \* the hours_per_day argument
    processed_calendar, \* result of process_calendar_data
    hour_segments,      \* per lesson, the segments the scheduler expanded
    scheduled_lessons,  \* result of process_lessons_for_scheduling
    validation,         \* result of validate_schedule
    analysis,           \* result of analyze_calendar
    learning_targets,   \* result of create_learning_targets_from_lessons
    lesson_target_mappings, \* result of create_lesson_target_mappings
    status_code,        \* status of the response to /process-data, 0 before it
    error               \* "none" or the message of the ValueError raised

vars == <<pc, calendar_df, lessons_df, hours_per_day, processed_calendar,
          hour_segments, scheduled_lessons, validation, analysis,
          learning_targets, lesson_target_mappings, status_code, error>>

----------------------------------------------------------------------------
(* Bounds of the model *)

MaxDate == 2
MaxCalendarRows == 3
MaxLessons == 2
MaxLessonNumber == 2
MaxDurationHalves == 4
MaxHoursPerDay == 2
MaxScheduleRows == 2
MaxTimelineRows == 1
MaxRawRows == 2
MaxDateColumns == 2

Dates == 0..MaxDate
NaT == -1

DurationTypes == {"hours", "days", "blocks", "sequential"}

NoValidation == [valid |-> TRUE, warnings |-> <<>>, errors |-> <<>>]

\* The empty dictionary.
NoAnalysis == <<>>

----------------------------------------------------------------------------
(* Helpers on sequences *)

SeqsUpTo(S, n) == UNION {[1..k -> S] : k \in 0..n}

Filter(s, Keep(_)) == SelectSeq(s, Keep)

\* The bijections of 1..n onto itself.
Perms(n) == {p \in [1..n -> 1..n] : \A i, j \in 1..n : i # j => p[i] # p[j]}

----------------------------------------------------------------------------
(* Dates *)

\* pandas .dt.weekday: Monday = 0 .. Sunday = 6; day 0 is a Thursday.
Weekday(d) == (d + 3) % 7

IsWeekend(d) == Weekday(d) >= 5

----------------------------------------------------------------------------
(* process_calendar_data *)

\* A raw row is a record over the columns in which it has a value: a cell
\* that is missing (NaN) is a column outside the row's domain.
IsNa(row, col) == col \notin DOMAIN row

\* A date cell holding text that is not a date.
Unparseable == -2

\* pd.to_datetime(errors='coerce') of one cell.
ToDatetime(row, col) ==
    IF IsNa(row, col) THEN NaT
    ELSE IF row[col] >= 0 THEN row[col]
    ELSE NaT

\* The alternatives tried when there is no column named date, swapped.
DateColumnsSwapped ==
    <<"DATE", "Date", "calendar_date", "school_date", "day", "due_date",
      "assigned_date", "created_date">>

\* The alternatives tried, in order, when there is no column named date.
DateColumns ==
    <<"Date", "DATE", "calendar_date", "school_date", "day", "due_date",
      "assigned_date", "created_date">>

NoDateColumn == ""

\* The column the dates are taken from, NoDateColumn when the loop finds none.
DateColumn(df) ==
    IF "date" \in df.columns THEN "date"
    ELSE IF \E k \in DOMAIN DateColumns : DateColumns[k] \in df.columns
         THEN DateColumns[CHOOSE k \in DOMAIN DateColumns :
                            /\ DateColumns[k] \in df.columns
                            /\ \A j \in 1..(k - 1) : DateColumns[j] \notin df.columns]
         ELSE NoDateColumn

\* DataFrame.empty: one of the two axes has length 0.
Empty(df) == df.rows = <<>> \/ df.columns = {}

\* The date (.dt.year, .dt.month, .dt.day) of a day number.
CivilFromDays(d) ==
    LET z == d + 719468
        era == z \div 146097
        doe == z % 146097
        yoe == (doe - doe \div 1460 + doe \div 36524 - doe \div 146096) \div 365
        doy == doe - (365 * yoe + yoe \div 4 - yoe \div 100)
        mp == (5 * doy + 2) \div 153
        m == IF mp < 10 THEN mp + 3 ELSE mp - 9
    IN  [year |-> yoe + era * 400 + (IF m <= 2 THEN 1 ELSE 0),
         month |-> m,
         day |-> doy - (153 * mp + 2) \div 5 + 1]

Year(d) == CivilFromDays(d).year

Month(d) == CivilFromDays(d).month

\* _get_academic_year, for one date.
AcademicYear(d) ==
    LET date == CivilFromDays(d)
    IN  IF date.month >= 8
        THEN ToString(date.year) \o "-" \o ToString(date.year + 1)
        ELSE ToString(date.year - 1) \o "-" \o ToString(date.year)

\* _get_semester, for one date.
Semester(d) ==
    LET month == Month(d)
    IN  IF 8 <= month /\ month <= 12 THEN "Fall"
        ELSE IF 1 <= month /\ month <= 5 THEN "Spring"
        ELSE "Summer"

\* The value of a cell no value was assigned to.
NaN == "NaN"

\* A variant of dropna that keeps every row.
ValidRowsUndropped(df) ==
    [i \in DOMAIN df.rows |->
        [index |-> i - 1,
         date |-> ToDatetime(df.rows[i], DateColumn(df)),
         row |-> df.rows[i]]]

\* pd.to_datetime(errors='coerce') followed by dropna(subset=['date']):
\* the rows whose date parsed, each keeping its index label.
ValidRows(df) ==
    LET indexed == [i \in DOMAIN df.rows |->
                      [index |-> i - 1,
                       date |-> ToDatetime(df.rows[i], DateColumn(df)),
                       row |-> df.rows[i]]]
    IN  Filter(indexed, LAMBDA r : r.date # NaT)

\* The date whose value the assignment of a helper's Series gives to the
\* row r: the Series is labelled 0..n-1 and the frame keeps the labels of
\* the raw rows, so the row labelled l receives the value computed for the
\* (l+1)-th valid row, and no value (NaT here) when there are not that many.
AlignedDate(df, r) ==
    LET valid == ValidRows(df)
    IN  IF r.index + 1 <= Len(valid) THEN valid[r.index + 1].date ELSE NaT

\* The default day type, from the truth value of the row's is_school_day
\* (a missing value is a float nan, which is true).
DefaultDayType(flag, missing) ==
    IF flag \/ missing THEN "school_day" ELSE "weekend"

\* The derived columns and the defaults of is_school_day and day_type.  The
\* cell of is_school_day is a pair: is_school_day_na tells that it is
\* missing, is_school_day is its value as == True sees it.
DeriveRow(df, r) ==
    LET flag_missing == "is_school_day" \in df.columns /\ IsNa(r.row, "is_school_day")
        flag == IF "is_school_day" \in df.columns
                THEN (~flag_missing /\ r.row.is_school_day)
                ELSE ~IsWeekend(r.date)
        aligned == AlignedDate(df, r)
        civil == CivilFromDays(r.date)
    IN  [index |-> r.index,
         date |-> r.date,
         year |-> civil.year,
         month |-> civil.month,
         is_weekend |-> IsWeekend(r.date),
         academic_year |-> IF aligned = NaT THEN NaN ELSE AcademicYear(aligned),
         semester |-> IF aligned = NaT THEN NaN ELSE Semester(aligned),
         is_school_day |-> flag,
         is_school_day_na |-> flag_missing,
         day_type |-> IF "day_type" \in df.columns
                      THEN (IF IsNa(r.row, "day_type") THEN NaN ELSE r.row.day_type)
                      ELSE DefaultDayType(flag, flag_missing)]

\* sort_values('date'): every row is kept; rows of equal date come out in an
\* order the sort does not fix.
SortedByDate(rows) ==
    {[i \in DOMAIN rows |-> rows[p[i]]] : p \in
        {q \in Perms(Len(rows)) :
            \A i \in 1..(Len(rows) - 1) : rows[q[i]].date <= rows[q[i + 1]].date}}

\* A variant that raises on an empty frame instead of returning.
CalendarErrorOnEmpty(df) ==
    IF Empty(df) THEN "No valid dates found in calendar data"
    ELSE IF DateColumn(df) = NoDateColumn THEN "No date column found"
    ELSE IF ValidRows(df) = <<>> THEN "No valid dates found in calendar data"
    ELSE "none"

CalendarError(df) ==
    IF Empty(df) THEN "none"
    ELSE IF DateColumn(df) = NoDateColumn THEN "No date column found"
    ELSE IF ValidRows(df) = <<>> THEN "No valid dates found in calendar data"
    ELSE "none"

CalendarResults(df) ==
    IF Empty(df) \/ CalendarError(df) # "none" THEN {<<>>}
    ELSE LET valid == ValidRows(df)
         IN  SortedByDate([i \in DOMAIN valid |-> DeriveRow(df, valid[i])])

ProcessCalendarData ==
    /\ pc = "calendar"
    /\ error' = CalendarError(calendar_df)
    /\ processed_calendar' \in CalendarResults(calendar_df)
    /\ pc' = IF CalendarError(calendar_df) = "none" THEN "schedule" ELSE "failed"
    /\ UNCHANGED <<calendar_df, lessons_df, hours_per_day, hour_segments,
                   scheduled_lessons, validation, analysis, learning_targets,
                   lesson_target_mappings, status_code>>

----------------------------------------------------------------------------
(* process_lessons_for_scheduling *)

RECURSIVE SortDates(_)
SortDates(ds) ==
    IF ds = <<>> THEN <<>>
    ELSE LET m == CHOOSE i \in DOMAIN ds : \A j \in DOMAIN ds : ds[i] <= ds[j]
         IN  <<ds[m]>> \o SortDates([k \in 1..(Len(ds) - 1) |->
                                        IF k < m THEN ds[k] ELSE ds[k + 1]])

\* calendar_df[calendar_df['is_school_day'] == True].sort_values('date'):
\* the dates of the school days, ascending.
SchoolDays(calendar) ==
    LET kept == Filter(calendar, LAMBDA r : r.is_school_day = TRUE)
    IN  SortDates([i \in DOMAIN kept |-> kept[i].date])

\* total_hours after the duration type is applied, in half hours.
TotalHours(lesson, hpd) ==
    IF lesson.duration_type = "days"
    THEN lesson.duration_hours * hpd
    ELSE lesson.duration_hours

\* A variant that truncates the raw duration before it is scaled by the day.
IntHoursTruncatedFirst(lesson, hpd) ==
    IF lesson.duration_type = "days"
    THEN (lesson.duration_hours \div 2) * hpd
    ELSE lesson.duration_hours \div 2

\* int(total_hours): the whole hours of a duration given in half hours.
IntHours(lesson, hpd) == TotalHours(lesson, hpd) \div 2

\* A variant that numbers the segments of a lesson from 0.
ExpandLessonZeroBased(lesson, hpd) ==
    [hour \in 1..IntHours(lesson, hpd) |->
        [lesson_number |-> lesson.lesson_number,
         hour_segment |-> hour - 1,
         total_segments |-> IntHours(lesson, hpd),
         duration_type |-> lesson.duration_type]]

\* The hour segments of one lesson: range(int(total_hours)).
ExpandLesson(lesson, hpd) ==
    [hour \in 1..IntHours(lesson, hpd) |->
        [lesson_number |-> lesson.lesson_number,
         hour_segment |-> hour,
         total_segments |-> IntHours(lesson, hpd),
         duration_type |-> lesson.duration_type]]

WithDate(segment, d) ==
    [lesson_number |-> segment.lesson_number,
     hour_segment |-> segment.hour_segment,
     total_segments |-> segment.total_segments,
     duration_type |-> segment.duration_type,
     date_planned |-> d]

\* Variants of the test that moves the day cursor: one moves it after every
\* segment, one lets a day take one segment more than hours_per_day.
DayIsFullAfterOne(hours_scheduled, hpd) == hours_scheduled >= 1

DayIsFullOffByOne(hours_scheduled, hpd) == hours_scheduled > hpd

\* Whether the day cursor moves on after a segment is placed.
DayIsFull(hours_scheduled, hpd) == hours_scheduled >= hpd

\* The inner loop "for segment in hour_segments" from the state st on.
RECURSIVE ScheduleSegments(_, _, _, _)
ScheduleSegments(segments, st, school_days, hpd) ==
    IF segments = <<>> THEN st
    ELSE IF st.current_date_index >= Len(school_days) THEN st
    ELSE LET current_date == school_days[st.current_date_index + 1]
             placed == Append(st.scheduled_lessons,
                              WithDate(Head(segments), current_date))
             hours == st.hours_scheduled + 1
             full == DayIsFull(hours, hpd)
         IN  ScheduleSegments(Tail(segments),
                [scheduled_lessons |-> placed,
                 current_date_index |-> IF full THEN st.current_date_index + 1
                                        ELSE st.current_date_index,
                 hours_scheduled |-> IF full THEN 0 ELSE hours],
                school_days, hpd)

\* hours_scheduled as the scheduling of one lesson starts (line 183).
HoursAtLessonStart(st) == 0

\* The outer loop "for _, lesson in lessons_df.iterrows()".
RECURSIVE ScheduleLessons(_, _, _, _)
ScheduleLessons(lessons, st, school_days, hpd) ==
    IF lessons = <<>> THEN st
    ELSE ScheduleLessons(Tail(lessons),
            ScheduleSegments(ExpandLesson(Head(lessons), hpd),
                             [st EXCEPT !.hours_scheduled = HoursAtLessonStart(st)],
                             school_days, hpd),
            school_days, hpd)

\* A variant of the early return that looks at the lessons only.
ScheduleReturnsEmptyLessonsOnly(lessons, calendar) == lessons = <<>>

\* The early return of lines 133-134.
ScheduleReturnsEmpty(lessons, calendar) == lessons = <<>> \/ calendar = <<>>

ScheduleError(lessons, calendar) ==
    IF ScheduleReturnsEmpty(lessons, calendar) THEN "none"
    ELSE IF SchoolDays(calendar) = <<>>
         THEN "No school days found in calendar data"
         ELSE "none"

ScheduleResult(lessons, calendar, hpd) ==
    IF ScheduleReturnsEmpty(lessons, calendar) \/ ScheduleError(lessons, calendar) # "none"
    THEN <<>>
    ELSE ScheduleLessons(lessons,
            [scheduled_lessons |-> <<>>, current_date_index |-> 0,
             hours_scheduled |-> 0],
            SchoolDays(calendar), hpd).scheduled_lessons

\* The hour_segments lists the loop builds, one per lesson.
ExpandedSegments(lessons, calendar, hpd) ==
    IF ScheduleReturnsEmpty(lessons, calendar) \/ ScheduleError(lessons, calendar) # "none"
    THEN <<>>
    ELSE [i \in DOMAIN lessons |-> ExpandLesson(lessons[i], hpd)]

ProcessLessonsForScheduling ==
    /\ pc = "schedule"
    /\ error' = ScheduleError(lessons_df, processed_calendar)
    /\ scheduled_lessons' = ScheduleResult(lessons_df, processed_calendar, hours_per_day)
    /\ hour_segments' = ExpandedSegments(lessons_df, processed_calendar, hours_per_day)
    /\ pc' = IF ScheduleError(lessons_df, processed_calendar) = "none"
             THEN "validate" ELSE "failed"
    /\ UNCHANGED <<calendar_df, lessons_df, hours_per_day, processed_calendar,
                   validation, analysis, learning_targets,
                   lesson_target_mappings, status_code>>

----------------------------------------------------------------------------
(* validate_schedule *)

ScheduledDates(schedule) == {schedule[i].date_planned : i \in DOMAIN schedule}

\* calendar_df['is_school_day'] == False: a missing flag equals nothing.
NonSchoolDays(calendar) ==
    {calendar[i].date : i \in {j \in DOMAIN calendar :
        calendar[j].is_school_day = FALSE /\ ~calendar[j].is_school_day_na}}

\* A variant that takes the weekend for the non-school days.
ConflictsOnWeekendOnly(schedule, calendar) ==
    {d \in ScheduledDates(schedule) \cap NonSchoolDays(calendar) : IsWeekend(d)}

Conflicts(schedule, calendar) == ScheduledDates(schedule) \cap NonSchoolDays(calendar)

\* A variant that takes Sunday alone for the weekend.
WeekendLessonsOnSunday(schedule) ==
    Filter(schedule, LAMBDA s : Weekday(s.date_planned) >= 6)

WeekendLessons(schedule) ==
    Filter(schedule, LAMBDA s : Weekday(s.date_planned) >= 5)

LessonNumbers(schedule) == {schedule[i].lesson_number : i \in DOMAIN schedule}

\* A variant that expects every number up to the largest one present.
MissingNumbersUpToLargest(schedule) ==
    {n \in 1..(MaxLessonNumber + 1) :
        /\ n \notin LessonNumbers(schedule)
        /\ \E m \in LessonNumbers(schedule) : n < m}

MissingNumbers(schedule) ==
    (1..Cardinality(LessonNumbers(schedule))) \ LessonNumbers(schedule)

\* A variant that groups by lesson_number alone.
DuplicateLessonsByNumber(schedule) ==
    {n \in LessonNumbers(schedule) :
        Cardinality({i \in DOMAIN schedule : schedule[i].lesson_number = n}) > 1}

\* groupby(['date_planned', 'lesson_number']).size() > 1
DuplicateLessons(schedule) ==
    {g \in {<<schedule[i].date_planned, schedule[i].lesson_number>> : i \in DOMAIN schedule} :
        Cardinality({i \in DOMAIN schedule :
            <<schedule[i].date_planned, schedule[i].lesson_number>> = g}) > 1}

ValidationErrors(schedule, calendar) ==
    (IF Conflicts(schedule, calendar) # {}
     THEN <<[kind |-> "non_school_days", dates |-> Conflicts(schedule, calendar)]>>
     ELSE <<>>)
    \o
    (IF DuplicateLessons(schedule) # {}
     THEN <<[kind |-> "duplicates", count |-> Cardinality(DuplicateLessons(schedule))]>>
     ELSE <<>>)

ValidationWarnings(schedule, calendar) ==
    (IF WeekendLessons(schedule) # <<>>
     THEN <<[kind |-> "weekends", count |-> Len(WeekendLessons(schedule))]>>
     ELSE <<>>)
    \o
    (IF MissingNumbers(schedule) # {}
     THEN <<[kind |-> "missing_numbers", numbers |-> MissingNumbers(schedule)]>>
     ELSE <<>>)

\* A variant in which a warning makes the schedule invalid too.
IsValidWithoutWarnings(errors, warnings) == Len(errors) = 0 /\ Len(warnings) = 0

\* 'valid': len(errors) == 0
IsValid(errors, warnings) == Len(errors) = 0

\* A variant that returns early on an empty schedule only.
ValidateResultScheduleOnly(schedule, calendar) ==
    IF schedule = <<>>
    THEN [valid |-> TRUE, warnings |-> <<>>, errors |-> <<>>]
    ELSE [valid |-> IsValid(ValidationErrors(schedule, calendar),
                            ValidationWarnings(schedule, calendar)),
          warnings |-> ValidationWarnings(schedule, calendar),
          errors |-> ValidationErrors(schedule, calendar)]

ValidateResult(schedule, calendar) ==
    IF schedule = <<>> \/ calendar = <<>>
    THEN [valid |-> TRUE, warnings |-> <<>>, errors |-> <<>>]
    ELSE [valid |-> IsValid(ValidationErrors(schedule, calendar),
                            ValidationWarnings(schedule, calendar)),
          warnings |-> ValidationWarnings(schedule, calendar),
          errors |-> ValidationErrors(schedule, calendar)]

ValidateSchedule ==
    /\ pc = "validate"
    /\ validation' = ValidateResult(scheduled_lessons, processed_calendar)
    /\ pc' = "done"
    /\ UNCHANGED <<calendar_df, lessons_df, hours_per_day, processed_calendar,
                   hour_segments, scheduled_lessons, analysis,
                   learning_targets, lesson_target_mappings, status_code, error>>

----------------------------------------------------------------------------
(* create_learning_targets_from_lessons *)

\* The content of a lesson is a sequence of lines; a line matches one of the
\* patterns, or none, and text is what the pattern's group captures.
Patterns ==
    <<"objective", "learning target", "students will", "standard", "goal",
      "outcome">>

\* str.strip() of a captured text; " " stands for a text of blanks.
Strip(text) == IF text = " " THEN "" ELSE text

\* re.findall of one pattern: the captured texts, in the order of the lines.
FindAll(pattern, content) ==
    LET hits == Filter(content, LAMBDA line : line.pattern = pattern)
    IN  [i \in DOMAIN hits |-> hits[i].text]

RECURSIVE Matches(_, _)
Matches(k, content) ==
    IF k > Len(Patterns) THEN <<>>
    ELSE FindAll(Patterns[k], content) \o Matches(k + 1, content)

\* A variant of the cleaning loop that keeps what is already there.
RECURSIVE CleanedKeepingRepeats(_, _)
CleanedKeepingRepeats(objectives, cleaned) ==
    IF objectives = <<>> THEN cleaned
    ELSE LET obj == Strip(Head(objectives))
         IN  CleanedKeepingRepeats(Tail(objectives),
                     IF obj # "" THEN Append(cleaned, obj) ELSE cleaned)

\* The cleaning loop: strip, skip what is empty or already there.
RECURSIVE Cleaned(_, _)
Cleaned(objectives, cleaned) ==
    IF objectives = <<>> THEN cleaned
    ELSE LET obj == Strip(Head(objectives))
         IN  Cleaned(Tail(objectives),
                     IF obj # "" /\ \A i \in DOMAIN cleaned : cleaned[i] # obj
                     THEN Append(cleaned, obj) ELSE cleaned)

\* _extract_objectives
ExtractObjectives(content) == Cleaned(Matches(1, content), <<>>)

\* The objectives of a lesson, the default one when none was extracted.
Objectives(lesson) ==
    IF ExtractObjectives(lesson.parsed_content) = <<>>
    THEN <<"Complete " \o lesson.title>>
    ELSE ExtractObjectives(lesson.parsed_content)

RECURSIVE Digits(_)
Digits(n) == IF n < 10 THEN 1 ELSE 1 + Digits(n \div 10)

RECURSIVE Zeros(_)
Zeros(k) == IF k <= 0 THEN "" ELSE "0" \o Zeros(k - 1)

\* format(n, '0<width>d') of a number that is not negative.
ZeroPadded(n, width) == Zeros(width - Digits(n)) \o ToString(n)

Code(lesson_number, target_id) ==
    "LT-" \o ZeroPadded(lesson_number, 3) \o "-" \o ZeroPadded(target_id, 2)

\* lesson.get('lesson_id') of a lesson without that column.
None == -1

Target(lesson, obj, target_id) ==
    [target_id |-> target_id,
     code |-> Code(lesson.lesson_number, target_id),
     description |-> obj,
     lesson_number |-> lesson.lesson_number,
     lesson_id |-> IF "lesson_id" \in DOMAIN lesson THEN lesson.lesson_id ELSE None,
     target_order |-> target_id]

\* A variant that starts every lesson at 1.
TargetIdAtNextLessonReset(target_id, count) == 1

\* target_id when the next lesson starts: it is set once, before the loop
\* over the lessons, and incremented after every target.
TargetIdAtNextLesson(target_id, count) == target_id + count

RECURSIVE TargetsFrom(_, _, _)
TargetsFrom(lessons, i, target_id) ==
    IF i > Len(lessons) THEN <<>>
    ELSE LET objectives == Objectives(lessons[i])
         IN  [j \in DOMAIN objectives |->
                 Target(lessons[i], objectives[j], target_id + j - 1)]
             \o TargetsFrom(lessons, i + 1,
                            TargetIdAtNextLesson(target_id, Len(objectives)))

TargetsResult(lessons) == TargetsFrom(lessons, 1, 1)

CreateLearningTargets ==
    /\ pc = "targets"
    /\ learning_targets' = TargetsResult(lessons_df)
    /\ pc' = "targets_done"
    /\ UNCHANGED <<calendar_df, lessons_df, hours_per_day, processed_calendar,
                   hour_segments, scheduled_lessons, validation, analysis,
                   lesson_target_mappings, status_code, error>>

----------------------------------------------------------------------------
(* analyze_calendar *)

Count(rows, Keep(_)) == Len(Filter(rows, Keep))

Column(rows, col) == {rows[i][col] : i \in DOMAIN rows}

RECURSIVE SortedSeq(_)
SortedSeq(S) ==
    IF S = {} THEN <<>>
    ELSE LET m == CHOOSE x \in S : \A y \in S : x <= y
         IN  <<m>> \o SortedSeq(S \ {m})

\* value_counts(): the values present, NaN left out, each with its count.
ValueCounts(rows, col) ==
    [v \in Column(rows, col) \ {NaN} |-> Count(rows, LAMBDA r : r[col] = v)]

\* groupby('month')['is_school_day'].sum()
MonthlySchoolDays(calendar) ==
    [m \in Column(calendar, "month") |->
        Count(calendar, LAMBDA r : r.month = m /\ r.is_school_day)]

\* The rows selected by academic_year == year; NaN equals nothing.
YearData(calendar, year) ==
    Filter(calendar, LAMBDA r : year # NaN /\ r.academic_year = year)

\* The breakdown, one entry per value of unique(), NaN included.
YearAnalysis(calendar) ==
    [year \in Column(calendar, "academic_year") |->
        LET year_data == YearData(calendar, year)
            dates == SortedSeq(Column(year_data, "date"))
        IN  [total_days |-> Len(year_data),
             school_days |-> Count(year_data, LAMBDA r : r.is_school_day),
             start_date |-> IF dates = <<>> THEN NaT ELSE dates[1],
             end_date |-> IF dates = <<>> THEN NaT ELSE dates[Len(dates)]]]

AnalyzeResult(calendar) ==
    IF calendar = <<>> THEN NoAnalysis
    ELSE LET dates == SortedSeq(Column(calendar, "date"))
             school_days == Count(calendar, LAMBDA r : r.is_school_day)
         IN  [total_days |-> Len(calendar),
              school_days |-> school_days,
              no_school_days |-> Len(calendar) - school_days,
              academic_years |-> Cardinality(Column(calendar, "academic_year") \ {NaN}),
              semesters |-> ValueCounts(calendar, "semester"),
              day_types |-> ValueCounts(calendar, "day_type"),
              months_covered |-> SortedSeq(Column(calendar, "month")),
              date_range |-> [start |-> dates[1], end |-> dates[Len(dates)]],
              school_days_per_month |-> MonthlySchoolDays(calendar),
              academic_year_breakdown |-> YearAnalysis(calendar)]

\* analyze_calendar on the timeline process_calendar_data returned.
AnalyzeCalendar ==
    /\ pc = "schedule"
    /\ analysis' = AnalyzeResult(processed_calendar)
    /\ pc' = "analyzed"
    /\ UNCHANGED <<calendar_df, lessons_df, hours_per_day, processed_calendar,
                   hour_segments, scheduled_lessons, validation,
                   learning_targets, lesson_target_mappings, status_code, error>>

----------------------------------------------------------------------------
(* create_lesson_target_mappings *)

\* row.get('lesson_id'): None where the row has no such key.
LessonId(row) == IF "lesson_id" \in DOMAIN row THEN row.lesson_id ELSE None

\* One cell of targets_df['lesson_id'] == scalar: a missing value equals
\* nothing, a missing value included.
CellEquals(cell, scalar) == cell # None /\ scalar # None /\ cell = scalar

Mapping(lesson, target) ==
    [lesson_id |-> LessonId(lesson),
     target_id |-> target.target_id,
     weight |-> 1,
     required |-> TRUE,
     scheduled_date |-> lesson.date_planned,
     completion_date |-> None]

\* The loop over the scheduled rows from row i on.
RECURSIVE MappingsFrom(_, _, _)
MappingsFrom(lessons, targets, i) ==
    IF i > Len(lessons) THEN <<>>
    ELSE LET lesson_targets ==
                 SelectSeq(targets,
                     LAMBDA t : CellEquals(t.lesson_id, LessonId(lessons[i])))
         IN  [j \in DOMAIN lesson_targets |-> Mapping(lessons[i], lesson_targets[j])]
             \o MappingsFrom(lessons, targets, i + 1)

MappingsResult(lessons, targets) ==
    IF lessons = <<>> \/ targets = <<>> THEN <<>>
    ELSE MappingsFrom(lessons, targets, 1)

----------------------------------------------------------------------------
(* process_lessons_and_calendar: the four calls of the standalone run.     *)

ProcessLessonsAndCalendar ==
    /\ pc = "run"
    /\ \E calendar \in CalendarResults(calendar_df) :
          LET raised == IF CalendarError(calendar_df) # "none"
                        THEN CalendarError(calendar_df)
                        ELSE ScheduleError(lessons_df, calendar)
              scheduled == ScheduleResult(lessons_df, calendar, hours_per_day)
              targets == TargetsResult(lessons_df)
          IN  /\ error' = raised
              /\ IF raised # "none"
                 THEN /\ pc' = "failed"
                      /\ UNCHANGED <<processed_calendar, hour_segments,
                                     scheduled_lessons, learning_targets,
                                     lesson_target_mappings>>
                 ELSE /\ pc' = "returned"
                      /\ processed_calendar' = calendar
                      /\ hour_segments' = ExpandedSegments(lessons_df, calendar, hours_per_day)
                      /\ scheduled_lessons' = scheduled
                      /\ learning_targets' = targets
                      /\ lesson_target_mappings' = MappingsResult(scheduled, targets)
    /\ UNCHANGED <<calendar_df, lessons_df, hours_per_day, validation,
                   analysis, status_code>>

----------------------------------------------------------------------------
(* POST /process-data: process_existing_data                               *)

NoDataProvided == "No data provided"

\* What the body of the try block raises, "none" when it returns.
ProcessDataRaised(lessons, df, calendar) ==
    IF lessons = <<>> \/ Empty(df) THEN NoDataProvided
    ELSE IF CalendarError(df) # "none" THEN CalendarError(df)
    ELSE ScheduleError(lessons, calendar)

\* except Exception catches whatever the body raises, the HTTPException of
\* the empty frames included, and raises HTTPException(status_code=500).
StatusCode(raised) == IF raised = "none" THEN 200 ELSE 500

ProcessExistingData ==
    /\ pc = "request"
    /\ \E calendar \in CalendarResults(calendar_df) :
          LET raised == ProcessDataRaised(lessons_df, calendar_df, calendar)
              scheduled == ScheduleResult(lessons_df, calendar, 1)
              targets == TargetsResult(lessons_df)
          IN  /\ error' = raised
              /\ status_code' = StatusCode(raised)
              /\ IF raised # "none"
                 THEN UNCHANGED <<processed_calendar, hour_segments,
                                  scheduled_lessons, learning_targets,
                                  lesson_target_mappings, validation>>
                 ELSE /\ processed_calendar' = calendar
                      /\ hour_segments' = ExpandedSegments(lessons_df, calendar, 1)
                      /\ scheduled_lessons' = scheduled
                      /\ learning_targets' = targets
                      /\ lesson_target_mappings' = MappingsResult(scheduled, targets)
                      /\ validation' = ValidateResult(scheduled, calendar)
    /\ pc' = "responded"
    /\ UNCHANGED <<calendar_df, lessons_df, hours_per_day, analysis>>

----------------------------------------------------------------------------
(* The run: process_calendar_data, process_lessons_for_scheduling, then     *)
(* validate_schedule, on inputs drawn from the bounded sets.               *)

RawRows == [date : Dates, is_school_day : BOOLEAN]

RawCalendars ==
    {[columns |-> {"date", "is_school_day"}, rows |-> rows] :
        rows \in SeqsUpTo(RawRows, MaxCalendarRows)}

\* The lessons of a run are of the types hours and days; blocks and sequential
\* take the path of hours and are expanded under SpecExpand.
Lessons ==
    [lesson_number : 1..MaxLessonNumber,
     duration_hours : 1..MaxDurationHalves,
     duration_type : {"hours", "days"}]

Init ==
    /\ pc = "calendar"
    /\ calendar_df \in RawCalendars
    /\ lessons_df \in SeqsUpTo(Lessons, MaxLessons)
    /\ hours_per_day \in 1..MaxHoursPerDay
    /\ processed_calendar = <<>>
    /\ hour_segments = <<>>
    /\ scheduled_lessons = <<>>
    /\ validation = NoValidation
    /\ analysis = NoAnalysis
    /\ learning_targets = <<>>
    /\ lesson_target_mappings = <<>>
    /\ status_code = 0
    /\ error = "none"

Next ==
    \/ ProcessCalendarData
    \/ ProcessLessonsForScheduling
    \/ ValidateSchedule

Spec == Init /\ [][Next]_vars

----------------------------------------------------------------------------
(* The expansion of lessons of every duration type, on a short calendar.   *)

ExpandLessons ==
    [lesson_number : 1..MaxLessonNumber,
     duration_hours : 0..MaxDurationHalves,
     duration_type : DurationTypes]

InitExpand ==
    /\ pc = "calendar"
    /\ calendar_df \in {c \in RawCalendars : Len(c.rows) = 1}
    /\ lessons_df \in SeqsUpTo(ExpandLessons, 1)
    /\ hours_per_day \in 1..(MaxHoursPerDay + 1)
    /\ processed_calendar = <<>>
    /\ hour_segments = <<>>
    /\ scheduled_lessons = <<>>
    /\ validation = NoValidation
    /\ analysis = NoAnalysis
    /\ learning_targets = <<>>
    /\ lesson_target_mappings = <<>>
    /\ status_code = 0
    /\ error = "none"

SpecExpand == InitExpand /\ [][Next]_vars

----------------------------------------------------------------------------
(* validate_schedule called on any schedule and any processed calendar.    *)

ScheduleRows == [lesson_number : 1..(MaxLessonNumber + 1), date_planned : Dates]

ProcessedCalendars ==
    UNION {CalendarResults([columns |-> {"date", "is_school_day"}, rows |-> rows]) :
            rows \in SeqsUpTo(RawRows, MaxTimelineRows)}

InitValidate ==
    /\ pc = "validate"
    /\ calendar_df = [columns |-> {}, rows |-> <<>>]
    /\ lessons_df = <<>>
    /\ hours_per_day = 1
    /\ processed_calendar \in ProcessedCalendars
    /\ hour_segments = <<>>
    /\ scheduled_lessons \in SeqsUpTo(ScheduleRows, MaxScheduleRows)
    /\ validation = NoValidation
    /\ analysis = NoAnalysis
    /\ learning_targets = <<>>
    /\ lesson_target_mappings = <<>>
    /\ status_code = 0
    /\ error = "none"

NextValidate == ValidateSchedule

SpecValidate == InitValidate /\ [][NextValidate]_vars

----------------------------------------------------------------------------
(* process_calendar_data on raw calendars of any column set, with cells    *)
(* that are missing or do not parse, followed by analyze_calendar.         *)

Merge(f, g) ==
    [x \in (DOMAIN f) \cup (DOMAIN g) |-> IF x \in DOMAIN f THEN f[x] ELSE g[x]]

\* A row without a value in the column.
NoCell == <<>>

\* 1970-05-31 (Sunday), 1970-07-31 (Friday), 1970-08-01 (Saturday),
\* 1970-12-31 (Thursday), 1971-01-01 (Friday).
SampleDates == {150, 211, 212, 364, 365}

DateCells == {[date |-> d] : d \in SampleDates \cup {Unparseable}} \cup {NoCell}

FlagCells == {[is_school_day |-> b] : b \in BOOLEAN} \cup {NoCell}

TagCells == {[day_type |-> t] : t \in {"holiday", "early_release"}} \cup {NoCell}

RichRows(columns) ==
    {Merge(d, Merge(f, t)) :
        d \in DateCells,
        f \in IF "is_school_day" \in columns THEN FlagCells ELSE {NoCell},
        t \in IF "day_type" \in columns THEN TagCells ELSE {NoCell}}

\* The column sets with a date column and any of the two optional columns.
RichColumnSets ==
    {{"date"} \cup optional : optional \in SUBSET {"is_school_day", "day_type"}}

AllDateColumns == {"date"} \cup {DateColumns[k] : k \in DOMAIN DateColumns}

ColumnDates == {0, 1}

\* The column sets with at most MaxDateColumns of the date-bearing columns
\* and possibly a column that bears no date.
ColumnSets ==
    {columns \cup other :
        columns \in {c \in SUBSET AllDateColumns : Cardinality(c) <= MaxDateColumns},
        other \in {{}, {"description"}}}

\* Rows in which every date-bearing column has its own value.
ColumnRows(columns) ==
    {Merge(r, [c \in columns \cap {"description"} |-> "text"]) :
        r \in [columns \ {"description"} -> ColumnDates]}

InitCalendar ==
    /\ pc = "calendar"
    /\ \/ \E columns \in RichColumnSets : \E n \in 0..MaxRawRows :
            \E rows \in [1..n -> RichRows(columns)] :
                calendar_df = [columns |-> columns, rows |-> rows]
       \/ \E columns \in ColumnSets : \E n \in 0..MaxRawRows :
            \E rows \in [1..n -> ColumnRows(columns)] :
                calendar_df = [columns |-> columns, rows |-> rows]
    /\ lessons_df = <<>>
    /\ hours_per_day = 1
    /\ processed_calendar = <<>>
    /\ hour_segments = <<>>
    /\ scheduled_lessons = <<>>
    /\ validation = NoValidation
    /\ analysis = NoAnalysis
    /\ learning_targets = <<>>
    /\ lesson_target_mappings = <<>>
    /\ status_code = 0
    /\ error = "none"

NextCalendar ==
    \/ ProcessCalendarData
    \/ AnalyzeCalendar

SpecCalendar == InitCalendar /\ [][NextCalendar]_vars

----------------------------------------------------------------------------
(* create_learning_targets_from_lessons on lessons with content.           *)

Line(pattern, text) == [pattern |-> pattern, text |-> text]

\* No line; a line that matches nothing; one objective; two objectives
\* found by a later and an earlier pattern; the same objective twice; an
\* objective of blanks; two objectives of one pattern.
SampleContents ==
    {<<>>,
     <<Line("none", "a")>>,
     <<Line("objective", "a")>>,
     <<Line("goal", "a"), Line("objective", "b")>>,
     <<Line("objective", "a"), Line("goal", "a")>>,
     <<Line("objective", " ")>>,
     <<Line("objective", "a"), Line("objective", "b")>>}

TargetLessons ==
    [lesson_number : 1..MaxLessonNumber,
     title : {"Intro"},
     parsed_content : SampleContents]

InitTargets ==
    /\ pc = "targets"
    /\ calendar_df = [columns |-> {}, rows |-> <<>>]
    /\ lessons_df \in SeqsUpTo(TargetLessons, MaxLessons)
    /\ hours_per_day = 1
    /\ processed_calendar = <<>>
    /\ hour_segments = <<>>
    /\ scheduled_lessons = <<>>
    /\ validation = NoValidation
    /\ analysis = NoAnalysis
    /\ learning_targets = <<>>
    /\ lesson_target_mappings = <<>>
    /\ status_code = 0
    /\ error = "none"

NextTargets == CreateLearningTargets

SpecTargets == InitTargets /\ [][NextTargets]_vars

----------------------------------------------------------------------------
(* The standalone run on lessons with content, with and without a          *)
(* lesson_id column, of whole hours. The calendar carries the school_id    *)
(* column the function reads; no step of the run looks at it.              *)

RunContents ==
    {<<>>,
     <<Line("objective", "a")>>,
     <<Line("objective", "a"), Line("objective", "b")>>}

RunLessons(with_id) ==
    {IF with_id THEN Merge(l, [lesson_id |-> 10 + l.lesson_number]) ELSE l :
        l \in [lesson_number : 1..MaxLessonNumber,
               duration_hours : {h \in 1..MaxDurationHalves : h % 2 = 0},
               duration_type : {"hours"},
               title : {"Intro"},
               parsed_content : RunContents]}

InitRun ==
    /\ pc = "run"
    /\ calendar_df \in {c \in RawCalendars : Len(c.rows) <= 2}
    /\ \E with_id \in BOOLEAN :
          lessons_df \in SeqsUpTo(RunLessons(with_id), MaxLessons)
    /\ hours_per_day \in 1..MaxHoursPerDay
    /\ processed_calendar = <<>>
    /\ hour_segments = <<>>
    /\ scheduled_lessons = <<>>
    /\ validation = NoValidation
    /\ analysis = NoAnalysis
    /\ learning_targets = <<>>
    /\ lesson_target_mappings = <<>>
    /\ status_code = 0
    /\ error = "none"

NextRun == ProcessLessonsAndCalendar

SpecRun == InitRun /\ [][NextRun]_vars

----------------------------------------------------------------------------
(* A request to /process-data: any calendar of SpecCalendar, and no lesson *)
(* or one.                                                                  *)

InitApi ==
    /\ pc = "request"
    /\ \/ \E columns \in RichColumnSets : \E n \in 0..MaxRawRows :
            \E rows \in [1..n -> RichRows(columns)] :
                calendar_df = [columns |-> columns, rows |-> rows]
       \/ \E columns \in ColumnSets : \E n \in 0..MaxRawRows :
            \E rows \in [1..n -> ColumnRows(columns)] :
                calendar_df = [columns |-> columns, rows |-> rows]
    /\ lessons_df \in SeqsUpTo({l \in RunLessons(FALSE) : l.parsed_content # <<>>}, 1)
    /\ hours_per_day = 1
    /\ processed_calendar = <<>>
    /\ hour_segments = <<>>
    /\ scheduled_lessons = <<>>
    /\ validation = NoValidation
    /\ analysis = NoAnalysis
    /\ learning_targets = <<>>
    /\ lesson_target_mappings = <<>>
    /\ status_code = 0
    /\ error = "none"

NextApi == ProcessExistingData

SpecApi == InitApi /\ [][NextApi]_vars

----------------------------------------------------------------------------
(* Quantities the properties speak of *)

RECURSIVE SumLens(_)
SumLens(ss) == IF ss = <<>> THEN 0 ELSE Len(Head(ss)) + SumLens(Tail(ss))

\* The scheduler has returned a schedule (it raised no error).
Scheduled == pc \in {"validate", "done"}

\* The number of segments the lessons expand to.
TotalSegments ==
    SumLens([i \in DOMAIN lessons_df |-> ExpandLesson(lessons_df[i], hours_per_day)])

InstructionalRows ==
    {i \in DOMAIN processed_calendar : processed_calendar[i].is_school_day = TRUE}

InstructionalDates == {processed_calendar[i].date : i \in InstructionalRows}

SegmentsOn(d) == {k \in DOMAIN scheduled_lessons : scheduled_lessons[k].date_planned = d}

DistinctDates ==
    \A i, j \in DOMAIN processed_calendar :
        i # j => processed_calendar[i].date # processed_calendar[j].date

----------------------------------------------------------------------------
(* Properties *)

\* C1: after process_lessons_for_scheduling, every instructional date of the
\* timeline (a timeline of distinct dates, as the data model has it) carries
\* at most hours_per_day scheduled segments.
CapacityRespected ==
    (Scheduled /\ DistinctDates) =>
        \A d \in InstructionalDates : Cardinality(SegmentsOn(d)) <= hours_per_day

\* C2: the schedule never has more segments than the lessons expand to, and
\* it has all of them whenever they are at most hours_per_day times the number
\* of instructional days.
SchedulingConservation ==
    Scheduled =>
        /\ Len(scheduled_lessons) <= TotalSegments
        /\ (TotalSegments <= hours_per_day * Cardinality(InstructionalRows)
                => Len(scheduled_lessons) = TotalSegments)

\* C2 witness: two lessons that fill the instructional days exactly.
ConservationWitness ==
    /\ Scheduled
    /\ Len(lessons_df) = 2
    /\ Cardinality(InstructionalRows) >= 2
    /\ TotalSegments = hours_per_day * Cardinality(InstructionalRows)
    /\ Len(scheduled_lessons) = TotalSegments

\* C3: every scheduled segment lies on the date of a timeline entry flagged
\* as a school day, and on no date that the timeline marks non-instructional.
OnlyInstructionalDates ==
    Scheduled =>
        \A k \in DOMAIN scheduled_lessons :
            /\ scheduled_lessons[k].date_planned \in InstructionalDates
            /\ scheduled_lessons[k].date_planned \notin NonSchoolDays(processed_calendar)

\* C4: a lesson expands to floor(effective hours) segments, the effective
\* hours being the raw duration, times hours_per_day for the type days: n is
\* the floor of e half hours when 2n <= e < 2(n + 1).
SegmentCountIsFloor ==
    (Scheduled /\ hour_segments # <<>>) =>
        \A i \in DOMAIN lessons_df :
            LET e == IF lessons_df[i].duration_type = "days"
                     THEN lessons_df[i].duration_hours * hours_per_day
                     ELSE lessons_df[i].duration_hours
                n == Len(hour_segments[i])
            IN  2 * n <= e /\ e < 2 * (n + 1)

\* C4 witness: a lesson of 1.5 days at 3 hours per day expanded to 4 segments.
SegmentCountWitness ==
    /\ Scheduled
    /\ hour_segments # <<>>
    /\ hours_per_day = 3
    /\ lessons_df[1].duration_type = "days"
    /\ lessons_df[1].duration_hours = 3
    /\ Len(hour_segments[1]) = 4

\* C5: a segment planned on the date of a timeline entry that is not a school
\* day makes validate_schedule return valid = false with an error that names
\* the date.
NonSchoolDayReported ==
    pc = "done" =>
        \A k \in DOMAIN scheduled_lessons : \A j \in DOMAIN processed_calendar :
            (/\ scheduled_lessons[k].date_planned = processed_calendar[j].date
             /\ processed_calendar[j].is_school_day = FALSE)
            => /\ validation.valid = FALSE
               /\ \E e \in DOMAIN validation.errors :
                    /\ validation.errors[e].kind = "non_school_days"
                    /\ scheduled_lessons[k].date_planned \in validation.errors[e].dates

\* C5 witness: a validated schedule with a segment on a weekday that the
\* timeline flags as no school day.
NonSchoolDayWitness ==
    /\ pc = "done"
    /\ \E k \in DOMAIN scheduled_lessons : \E j \in DOMAIN processed_calendar :
        /\ scheduled_lessons[k].date_planned = processed_calendar[j].date
        /\ processed_calendar[j].is_school_day = FALSE
        /\ ~IsWeekend(processed_calendar[j].date)
    /\ validation.valid = FALSE

\* C6: valid is true exactly when the errors list is empty, whatever the
\* warnings.
ValidIffNoErrors ==
    pc = "done" => (validation.valid = TRUE <=> validation.errors = <<>>)

\* C6 witness: a result with both warnings and valid = true.
ValidWithWarningsWitness ==
    /\ pc = "done"
    /\ Len(validation.warnings) = 2
    /\ validation.valid = TRUE

ScheduleRaised == pc = "failed" /\ error = "No school days found in calendar data"

ScenarioAInputs ==
    /\ hours_per_day = 1
    /\ DistinctDates
    /\ \A j \in DOMAIN processed_calendar :
        /\ processed_calendar[j].is_school_day = TRUE
        /\ ~IsWeekend(processed_calendar[j].date)
    /\ \A i \in DOMAIN lessons_df :
        /\ lessons_df[i].lesson_number = i
        /\ lessons_df[i].duration_hours >= 2
        /\ lessons_df[i].duration_hours % 2 = 0

OneSegmentPerDay ==
    (pc = "done" /\ ScenarioAInputs) =>
        /\ validation.valid = TRUE
        /\ validation.warnings = <<>>
        /\ \A k \in DOMAIN scheduled_lessons :
            /\ k <= Len(SchoolDays(processed_calendar))
            /\ scheduled_lessons[k].date_planned = SchoolDays(processed_calendar)[k]

\* C8 witness: two numbered lessons, the second of them cut short by the end
\* of a calendar of two weekdays.
OneSegmentPerDayWitness ==
    /\ pc = "done"
    /\ ScenarioAInputs
    /\ Len(lessons_df) = 2
    /\ Len(processed_calendar) = 2
    /\ Len(scheduled_lessons) = 2
    /\ TotalSegments > 2

\* C9: the dates of the timeline process_calendar_data returns are strictly
\* increasing.
StrictlyIncreasingDates ==
    pc # "calendar" =>
        \A i \in 1..(Len(processed_calendar) - 1) :
            processed_calendar[i].date < processed_calendar[i + 1].date

\* C10: the timeline holds at most one entry per date, the last raw row of
\* that date.
LastRowOfDate(i) ==
    \A j \in DOMAIN calendar_df.rows :
        calendar_df.rows[j].date = calendar_df.rows[i].date => j <= i

OneEntryPerDate ==
    pc # "calendar" =>
        /\ DistinctDates
        /\ \A k \in DOMAIN processed_calendar :
            LastRowOfDate(processed_calendar[k].index + 1)

\* The expansion sequence: lessons in input order, each with its segments
\* 1..n, n the number of segments expanded for it.
RECURSIVE ExpansionFrom(_)
ExpansionFrom(i) ==
    IF i > Len(hour_segments) THEN <<>>
    ELSE [h \in 1..Len(hour_segments[i]) |->
            [lesson_number |-> lessons_df[i].lesson_number, hour_segment |-> h]]
         \o ExpansionFrom(i + 1)

ExpansionSequence == ExpansionFrom(1)

PlacedSequence ==
    [k \in DOMAIN scheduled_lessons |->
        [lesson_number |-> scheduled_lessons[k].lesson_number,
         hour_segment |-> scheduled_lessons[k].hour_segment]]

\* C19: the j-th segment in overall expansion order lies on the instructional
\* day at 0-based position floor((j - 1) / hours_per_day).
SharedDayCursor ==
    Scheduled =>
        \A j \in DOMAIN scheduled_lessons :
            /\ (j - 1) \div hours_per_day < Len(SchoolDays(processed_calendar))
            /\ scheduled_lessons[j].date_planned =
                   SchoolDays(processed_calendar)[((j - 1) \div hours_per_day) + 1]

\* C20: the schedule is a prefix of the expansion sequence, returned without
\* an error: after the first dropped segment nothing more is placed.
ScheduleIsPrefix ==
    Scheduled =>
        /\ error = "none"
        /\ Len(PlacedSequence) <= Len(ExpansionSequence)
        /\ PlacedSequence = SubSeq(ExpansionSequence, 1, Len(PlacedSequence))

\* C20 witness: the days run out inside the first of two lessons, and the
\* second lesson, which has segments, is dropped whole.
PrefixWitness ==
    /\ Scheduled
    /\ Len(hour_segments) = 2
    /\ scheduled_lessons # <<>>
    /\ Len(scheduled_lessons) < Len(hour_segments[1])
    /\ hour_segments[2] # <<>>

----------------------------------------------------------------------------
(* Properties of process_calendar_data and analyze_calendar *)

CalendarReturned == pc # "calendar"

\* The raw row a timeline row was made from.
RawRowOf(r) == calendar_df.rows[r.index + 1]

Priority ==
    <<"date", "Date", "DATE", "calendar_date", "school_date", "day",
      "due_date", "assigned_date", "created_date">>

FirstPresent(k) ==
    /\ Priority[k] \in calendar_df.columns
    /\ \A j \in 1..(k - 1) : Priority[j] \notin calendar_df.columns

\* C11: the dates come from the first column present in the priority order
\* date, Date, DATE, calendar_date, school_date, day, due_date,
\* assigned_date, created_date; the call fails with the missing-date-column
\* error, and returns no timeline, exactly when the input is not empty and
\* has none of these columns.
DateColumnPriority ==
    CalendarReturned =>
        /\ (error = "No date column found")
              <=> (/\ calendar_df.rows # <<>>
                   /\ calendar_df.columns # {}
                   /\ \A k \in DOMAIN Priority : Priority[k] \notin calendar_df.columns)
        /\ (error = "No date column found")
              => (pc = "failed" /\ processed_calendar = <<>>)
        /\ \A k \in DOMAIN Priority :
              FirstPresent(k) =>
                  \A i \in DOMAIN processed_calendar :
                      processed_calendar[i].date = RawRowOf(processed_calendar[i])[Priority[k]]

\* C11 witness: DATE and day are both present with different values in the
\* first row, there is no column date, and the timeline has the value of DATE.
DateColumnWitness ==
    /\ pc = "schedule"
    /\ {"DATE", "day"} \subseteq calendar_df.columns
    /\ {"date", "Date"} \cap calendar_df.columns = {}
    /\ Len(calendar_df.rows) = 1
    /\ calendar_df.rows[1]["DATE"] # calendar_df.rows[1]["day"]
    /\ processed_calendar[1].date = calendar_df.rows[1]["DATE"]

Parses(row, col) == col \in DOMAIN row /\ row[col] >= 0

ParsingLabels ==
    {i - 1 : i \in {j \in DOMAIN calendar_df.rows :
                        Parses(calendar_df.rows[j], DateColumn(calendar_df))}}

HasDates ==
    /\ calendar_df.rows # <<>>
    /\ DateColumn(calendar_df) # NoDateColumn

\* C12: a row whose date fails to parse is dropped without an error and a
\* row whose date parses is kept; when no row remains the call fails with
\* the no-valid-dates error.
UnparsedRowsDropped ==
    (CalendarReturned /\ HasDates) =>
        IF ParsingLabels = {}
        THEN /\ error = "No valid dates found in calendar data"
             /\ pc = "failed"
             /\ processed_calendar = <<>>
        ELSE /\ error = "none"
             /\ pc # "failed"
             /\ Len(processed_calendar) = Cardinality(ParsingLabels)
             /\ {processed_calendar[i].index : i \in DOMAIN processed_calendar}
                    = ParsingLabels

\* C12 witness: of two rows the first does not parse, and the timeline is
\* the second row alone.
UnparsedRowWitness ==
    /\ pc = "schedule"
    /\ Len(calendar_df.rows) = 2
    /\ "date" \in DOMAIN calendar_df.rows[1]
    /\ calendar_df.rows[1].date = Unparseable
    /\ Len(processed_calendar) = 1
    /\ processed_calendar[1].index = 1

LacksFlag(r) ==
    \/ "is_school_day" \notin calendar_df.columns
    \/ "is_school_day" \notin DOMAIN RawRowOf(r)

\* C14: a row without an explicit instructional flag, the column being
\* absent or the row's value missing, is instructional exactly when its date
\* is a Monday to Friday.
DefaultFlagFromWeekday ==
    CalendarReturned =>
        \A i \in DOMAIN processed_calendar :
            LacksFlag(processed_calendar[i]) =>
                /\ ~processed_calendar[i].is_school_day_na
                /\ processed_calendar[i].is_school_day
                       <=> (Weekday(processed_calendar[i].date) <= 4)

DayTypes ==
    {"regular", "early_release", "holiday", "no_school", "weekend",
     "professional_day", "snow_day", "orientation", "other"}

LacksTag(r) ==
    \/ "day_type" \notin calendar_df.columns
    \/ "day_type" \notin DOMAIN RawRowOf(r)

\* C15: a row without a day-type tag gets regular when it is instructional
\* and weekend otherwise, and every day_type of the timeline is one of the
\* nine day types.
DefaultDayTypeRegular ==
    CalendarReturned =>
        \A i \in DOMAIN processed_calendar :
            /\ LacksTag(processed_calendar[i]) =>
                   processed_calendar[i].day_type =
                       IF processed_calendar[i].is_school_day
                       THEN "regular" ELSE "weekend"
            /\ processed_calendar[i].day_type \in DayTypes

\* C16: every row of the timeline has the academic_year and the semester of
\* its own date, also when earlier raw rows were dropped.
LabelsFromOwnDate ==
    CalendarReturned =>
        \A i \in DOMAIN processed_calendar :
            /\ processed_calendar[i].academic_year =
                   AcademicYear(processed_calendar[i].date)
            /\ processed_calendar[i].semester =
                   Semester(processed_calendar[i].date)

RECURSIVE SumOver(_, _)
SumOver(f, keys) ==
    IF keys = {} THEN 0
    ELSE LET k == CHOOSE x \in keys : TRUE
         IN  f[k] + SumOver(f, keys \ {k})

\* C17: the summary of a timeline that is not empty has total_days = rows,
\* school_days = rows flagged instructional, no_school_days = their
\* difference, per-month counts summing to school_days and per-academic-year
\* total_days summing to total_days; an empty timeline gives the empty summary.
AnalysisTotals ==
    pc = "analyzed" =>
        IF processed_calendar = <<>> THEN analysis = NoAnalysis
        ELSE /\ analysis.total_days = Len(processed_calendar)
             /\ analysis.school_days =
                    Cardinality({i \in DOMAIN processed_calendar :
                                    processed_calendar[i].is_school_day})
             /\ analysis.no_school_days = analysis.total_days - analysis.school_days
             /\ SumOver(analysis.school_days_per_month,
                        DOMAIN analysis.school_days_per_month) = analysis.school_days
             /\ SumOver([y \in DOMAIN analysis.academic_year_breakdown |->
                            analysis.academic_year_breakdown[y].total_days],
                        DOMAIN analysis.academic_year_breakdown) = analysis.total_days

----------------------------------------------------------------------------
(* Properties of create_learning_targets_from_lessons *)

TargetsCreated == pc = "targets_done"

\* The number of targets of the first n lessons.
RECURSIVE TargetsBefore(_)
TargetsBefore(n) ==
    IF n = 0 THEN 0
    ELSE TargetsBefore(n - 1) + Len(Objectives(lessons_df[n]))

\* The lesson the k-th target comes from.
LessonOfTarget(k) ==
    CHOOSE n \in DOMAIN lessons_df : TargetsBefore(n - 1) < k /\ k <= TargetsBefore(n)

ThreeDigits(n) ==
    IF n < 10 THEN "00" \o ToString(n)
    ELSE IF n < 100 THEN "0" \o ToString(n) ELSE ToString(n)

TwoDigits(n) == IF n < 10 THEN "0" \o ToString(n) ELSE ToString(n)

\* C18: the k-th target of a batch has the sequence number k and the code
\* LT-<lesson number, 3 digits>-<k, 2 digits>; the number is not reset at a
\* lesson boundary, so the codes of a batch are pairwise distinct.
RunningTargetCounter ==
    TargetsCreated =>
        /\ Len(learning_targets) = TargetsBefore(Len(lessons_df))
        /\ \A k \in DOMAIN learning_targets :
              /\ learning_targets[k].target_id = k
              /\ learning_targets[k].target_order = k
              /\ learning_targets[k].code =
                     "LT-" \o ThreeDigits(lessons_df[LessonOfTarget(k)].lesson_number)
                           \o "-" \o TwoDigits(k)
        /\ \A j, k \in DOMAIN learning_targets :
              j # k => learning_targets[j].code # learning_targets[k].code

\* C18 witness: two lessons of the same number with two targets each; the
\* second lesson's targets are numbered 3 and 4.
RunningCounterWitness ==
    /\ TargetsCreated
    /\ Len(lessons_df) = 2
    /\ lessons_df[1].lesson_number = lessons_df[2].lesson_number
    /\ Len(learning_targets) = 4
    /\ learning_targets[3].lesson_number = lessons_df[2].lesson_number
    /\ learning_targets[3].code = "LT-001-03"

----------------------------------------------------------------------------
(* Properties of validate_schedule on any schedule and timeline *)

Validated == pc = "done"

HasError(kind) ==
    \E e \in DOMAIN validation.errors : validation.errors[e].kind = kind

HasWarning(kind) ==
    \E w \in DOMAIN validation.warnings : validation.warnings[w].kind = kind

RepeatedPair ==
    \E i, j \in DOMAIN scheduled_lessons :
        /\ i # j
        /\ scheduled_lessons[i].date_planned = scheduled_lessons[j].date_planned
        /\ scheduled_lessons[i].lesson_number = scheduled_lessons[j].lesson_number

\* C23 as stated: the duplicate-placement error is added, and valid is
\* false, exactly when some (date_planned, lesson_number) pair occurs in more
\* than one scheduled row.
DuplicateErrorIffRepeatedPair ==
    Validated =>
        /\ HasError("duplicates") <=> RepeatedPair
        /\ RepeatedPair => validation.valid = FALSE

\* C23: checked against a timeline that is not empty, the duplicate-placement
\* error is added, and valid is false, exactly when some (date_planned,
\* lesson_number) pair occurs in more than one scheduled row; against an
\* empty timeline nothing is reported.
DuplicateErrorOnTimeline ==
    Validated =>
        IF processed_calendar = <<>>
        THEN ~HasError("duplicates")
        ELSE /\ HasError("duplicates") <=> RepeatedPair
             /\ RepeatedPair => validation.valid = FALSE

\* C23 witness: two rows of the same lesson on the same instructional
\* weekday; the only error is the duplicate placement.
DuplicateErrorWitness ==
    /\ Validated
    /\ RepeatedPair
    /\ processed_calendar # <<>>
    /\ Len(validation.errors) = 1
    /\ validation.errors[1].kind = "duplicates"
    /\ validation.valid = FALSE

DistinctNumbers == {scheduled_lessons[i].lesson_number : i \in DOMAIN scheduled_lessons}

AbsentNumbers == (1..Cardinality(DistinctNumbers)) \ DistinctNumbers

ReportedNumbers ==
    UNION {validation.warnings[w].numbers :
              w \in {v \in DOMAIN validation.warnings :
                        validation.warnings[v].kind = "missing_numbers"}}

\* C24 as stated: the gap warning is added exactly when the set D of the
\* distinct lesson numbers differs from 1..|D|, and lists exactly the
\* integers of 1..|D| absent from D.
GapWarningIffNotContiguous ==
    Validated =>
        /\ HasWarning("missing_numbers")
               <=> (DistinctNumbers # 1..Cardinality(DistinctNumbers))
        /\ ReportedNumbers = AbsentNumbers

\* C24: checked against a timeline that is not empty, the gap warning is
\* added exactly when the set D of the distinct lesson numbers differs from
\* 1..|D|, and lists exactly the integers of 1..|D| absent from D; against an
\* empty timeline nothing is reported.
GapWarningOnTimeline ==
    Validated =>
        IF processed_calendar = <<>>
        THEN ~HasWarning("missing_numbers")
        ELSE /\ HasWarning("missing_numbers")
                    <=> (DistinctNumbers # 1..Cardinality(DistinctNumbers))
             /\ ReportedNumbers = AbsentNumbers

\* C24 witness: the lessons 1 and 3 are scheduled; 2 is reported, and with
\* lesson 3 alone 2 would lie above |D|.
GapWarningWitness ==
    /\ Validated
    /\ processed_calendar # <<>>
    /\ DistinctNumbers = {1, 3}
    /\ ReportedNumbers = {2}

OnWeekend(d) == d % 7 = 2 \/ d % 7 = 3

SomeWeekendPlacement ==
    \E k \in DOMAIN scheduled_lessons : OnWeekend(scheduled_lessons[k].date_planned)

\* C25 as stated: the weekend warning is added exactly when some
\* date_planned is a Saturday or a Sunday, whatever the timeline's flag; on
\* a weekend date flagged non-instructional both the error and the warning
\* are produced.
WeekendWarningIffWeekendDate ==
    Validated =>
        /\ HasWarning("weekends") <=> SomeWeekendPlacement
        /\ \A k \in DOMAIN scheduled_lessons : \A j \in DOMAIN processed_calendar :
              (/\ OnWeekend(scheduled_lessons[k].date_planned)
               /\ processed_calendar[j].date = scheduled_lessons[k].date_planned
               /\ processed_calendar[j].is_school_day = FALSE)
              => (HasError("non_school_days") /\ HasWarning("weekends"))

\* C25: checked against a timeline that is not empty, the weekend warning is
\* added exactly when some date_planned is a Saturday or a Sunday, whatever
\* the timeline's flag; on a weekend date flagged non-instructional both the
\* error and the warning are produced; against an empty timeline nothing is
\* reported.
WeekendWarningOnTimeline ==
    Validated =>
        IF processed_calendar = <<>>
        THEN ~HasWarning("weekends")
        ELSE /\ HasWarning("weekends") <=> SomeWeekendPlacement
             /\ \A k \in DOMAIN scheduled_lessons : \A j \in DOMAIN processed_calendar :
                   (/\ OnWeekend(scheduled_lessons[k].date_planned)
                    /\ processed_calendar[j].date = scheduled_lessons[k].date_planned
                    /\ processed_calendar[j].is_school_day = FALSE)
                   => (HasError("non_school_days") /\ HasWarning("weekends"))

\* C25 witness: a segment on a Saturday that the timeline flags
\* non-instructional, reported by the error and by the warning.
WeekendDoubleReportWitness ==
    /\ Validated
    /\ \E k \in DOMAIN scheduled_lessons : \E j \in DOMAIN processed_calendar :
          /\ OnWeekend(scheduled_lessons[k].date_planned)
          /\ processed_calendar[j].date = scheduled_lessons[k].date_planned
          /\ processed_calendar[j].is_school_day = FALSE
    /\ HasError("non_school_days")
    /\ HasWarning("weekends")

FlaggedNonInstructional(d) ==
    \E j \in DOMAIN processed_calendar :
        /\ processed_calendar[j].date = d
        /\ processed_calendar[j].is_school_day = FALSE
        /\ ~processed_calendar[j].is_school_day_na

\* C30: with an empty schedule or an empty timeline the result is valid with
\* no warnings and no errors; a non-instructional-placement error names only
\* a date_planned that is the date of a timeline row flagged
\* non-instructional, so a date_planned absent from the timeline yields none.
EmptyInputsValidate ==
    Validated =>
        /\ (scheduled_lessons = <<>> \/ processed_calendar = <<>>)
              => validation = [valid |-> TRUE, warnings |-> <<>>, errors |-> <<>>]
        /\ \A e \in DOMAIN validation.errors :
              validation.errors[e].kind = "non_school_days" =>
                  \A d \in validation.errors[e].dates :
                      /\ \E k \in DOMAIN scheduled_lessons :
                            scheduled_lessons[k].date_planned = d
                      /\ FlaggedNonInstructional(d)

\* C30 witness: a schedule with a repeated pair on a weekend checked against
\* an empty timeline comes back valid, without warnings or errors.
EmptyTimelineWitness ==
    /\ Validated
    /\ processed_calendar = <<>>
    /\ RepeatedPair
    /\ SomeWeekendPlacement
    /\ validation = [valid |-> TRUE, warnings |-> <<>>, errors |-> <<>>]

----------------------------------------------------------------------------
(* Properties of the validated schedule of a run *)

\* The loop over the segments was left at line 186: fewer segments were
\* placed than the scheduler expanded.
Dropped == Len(scheduled_lessons) < SumLens(hour_segments)

RowsOfLesson(n) ==
    Cardinality({k \in DOMAIN scheduled_lessons : scheduled_lessons[k].lesson_number = n})

\* C21: when the scheduler dropped a segment for lack of instructional days,
\* the outputs show it: validate_schedule gives a warning or an error, or a
\* scheduled row's total_segments exceeds the rows scheduled for its lesson;
\* also when whole lessons were dropped at a lesson boundary.
DropIsObservable ==
    (pc = "done" /\ Dropped) =>
        \/ validation.warnings # <<>>
        \/ validation.errors # <<>>
        \/ \E k \in DOMAIN scheduled_lessons :
              scheduled_lessons[k].total_segments >
                  RowsOfLesson(scheduled_lessons[k].lesson_number)

DistinctLessonNumbers ==
    \A i, j \in DOMAIN lessons_df :
        i # j => lessons_df[i].lesson_number # lessons_df[j].lesson_number

\* C28: with distinct lesson numbers and a timeline of distinct dates, the
\* schedule the scheduler produced is valid against that timeline, also when
\* a lesson of two or more hours is scheduled with hours_per_day >= 2.
ProducedScheduleIsValid ==
    (pc = "done" /\ DistinctLessonNumbers /\ DistinctDates) =>
        validation.valid = TRUE

----------------------------------------------------------------------------
(* Day type and instructional flag of the timeline *)

NonInstructionalTypes ==
    {"holiday", "no_school", "weekend", "professional_day", "snow_day"}

InstructionalTypes == {"regular", "early_release", "orientation"}

\* C22: in the timeline a row of day type holiday, no_school, weekend,
\* professional_day or snow_day is not instructional and a row of day type
\* regular, early_release or orientation is instructional, unless the raw
\* row had an explicit flag; a holiday on a weekday without a flag is not
\* made instructional.
DayTypeConsistentWithFlag ==
    CalendarReturned =>
        \A i \in DOMAIN processed_calendar :
            LacksFlag(processed_calendar[i]) =>
                /\ processed_calendar[i].day_type \in NonInstructionalTypes
                       => ~processed_calendar[i].is_school_day
                /\ processed_calendar[i].day_type \in InstructionalTypes
                       => (/\ processed_calendar[i].is_school_day
                           /\ ~processed_calendar[i].is_school_day_na)

\* In a run, the scheduler places nothing on a date the timeline flags
\* non-instructional when the timeline's dates are distinct.
NoConflictOnDistinctDates ==
    (pc = "done" /\ DistinctDates) => ~HasError("non_school_days")

----------------------------------------------------------------------------
(* The targets of each lesson *)

\* The objective strings found in a lesson's content: what the lines that
\* match a pattern capture, blanks removed, empty strings left out.
ObjectiveStrings(lesson) ==
    {IF lesson.parsed_content[i].text = " " THEN ""
     ELSE lesson.parsed_content[i].text :
        i \in {j \in DOMAIN lesson.parsed_content :
                  lesson.parsed_content[j].pattern # "none"}} \ {""}

ExpectedTargets(lesson) ==
    IF ObjectiveStrings(lesson) = {} THEN {"Complete " \o lesson.title}
    ELSE ObjectiveStrings(lesson)

RECURSIVE ExpectedBefore(_)
ExpectedBefore(n) ==
    IF n = 0 THEN 0
    ELSE ExpectedBefore(n - 1) + Cardinality(ExpectedTargets(lessons_df[n]))

\* The positions of the targets of the n-th lesson.
BlockOf(n) == (ExpectedBefore(n - 1) + 1)..ExpectedBefore(n)

\* C26: every lesson yields at least one target: exactly one, titled
\* Complete <lesson title>, when no objective is found in its content, and
\* otherwise one per distinct objective string, so no two targets of a
\* lesson have the same description.
TargetsPerLesson ==
    TargetsCreated =>
        /\ Len(learning_targets) = ExpectedBefore(Len(lessons_df))
        /\ \A n \in DOMAIN lessons_df :
              /\ BlockOf(n) # {}
              /\ {learning_targets[k].description : k \in BlockOf(n)}
                     = ExpectedTargets(lessons_df[n])
              /\ \A j, k \in BlockOf(n) :
                    j # k => learning_targets[j].description
                                 # learning_targets[k].description

\* C26 witness: a first lesson without an objective gets the default target
\* and a second lesson whose content names the same objective twice gets one.
TargetsPerLessonWitness ==
    /\ TargetsCreated
    /\ Len(lessons_df) = 2
    /\ ObjectiveStrings(lessons_df[1]) = {}
    /\ Len(lessons_df[2].parsed_content) = 2
    /\ ObjectiveStrings(lessons_df[2]) = {"a"}
    /\ Len(learning_targets) = 2
    /\ learning_targets[1].description = "Complete Intro"
    /\ learning_targets[2].description = "a"

----------------------------------------------------------------------------
(* Properties of the mappings of the standalone run *)

Returned == pc = "returned"

DatesOfLesson(n) ==
    {scheduled_lessons[r].date_planned :
        r \in {k \in DOMAIN scheduled_lessons : scheduled_lessons[k].lesson_number = n}}

\* C29: after the run (schedule the lessons, extract the targets of the same
\* lessons, map the scheduled segments to the targets), every target of a
\* lesson with a scheduled segment is in a mapping of weight 1.0 that is
\* required and is dated on a day the lesson is scheduled on.
EveryScheduledTargetIsMapped ==
    Returned =>
        \A k \in DOMAIN learning_targets :
            LET n == lessons_df[LessonOfTarget(k)].lesson_number
            IN  DatesOfLesson(n) # {} =>
                    \E m \in DOMAIN lesson_target_mappings :
                        /\ lesson_target_mappings[m].target_id = learning_targets[k].target_id
                        /\ lesson_target_mappings[m].weight = 1
                        /\ lesson_target_mappings[m].required
                        /\ lesson_target_mappings[m].scheduled_date \in DatesOfLesson(n)

\* What the run does instead: it never maps anything.
NoMappingIsEverCreated == lesson_target_mappings = <<>>

----------------------------------------------------------------------------
(* Properties of the response to /process-data *)

Responded == pc = "responded"

InputErrors ==
    {NoDataProvided, "No date column found",
     "No valid dates found in calendar data",
     "No school days found in calendar data"}

\* C27: an input error the caller can correct (no lesson or calendar data, no
\* date column, no valid date, no instructional day) is answered with a 4xx
\* status, and a 5xx status answers only an unexpected internal failure.
InputErrorsAreClientErrors ==
    Responded =>
        /\ error \in InputErrors => status_code \in 400..499
        /\ status_code \in 500..599 => error \notin InputErrors

\* What the handler does instead: every failure is answered with 500.
EveryFailureIsAnswered500 ==
    Responded => (status_code = IF error = "none" THEN 200 ELSE 500)

====
